---- MODULE Spec2Model ----
(***************************************************************************)
(* Model of db_mirror.py: DatabaseMirror.sync_data and the helpers it      *)
(* calls, run against a source table and a target table held by two MySQL  *)
(* servers.  A table is a set of rows; the target connection works inside  *)
(* a transaction (mysql.connector opens connections with autocommit off),  *)
(* so the target has a durable content and the content the session sees.   *)
(***************************************************************************)
EXTENDS Integers, Sequences, FiniteSets, TLC

\* ---------------------------------------------------------------- bounds
MaxRuns == 4        \* runs of sync_data in one behaviour
MaxRows == 2        \* rows the source table holds at one time
MaxVal  == 1        \* non-NULL values of the nullable column: 1..MaxVal

\* ------------------------------------------------------- the two tables
Null == 0                       \* SQL NULL, None in Python
Regions == {1, 2}               \* values of the key column region
Ids == {1}
Vals == {Null} \cup (1..MaxVal)

\* cursor.description of SELECT * on the source: the business columns
Columns == <<"id", "region", "val">>
TrackingColumns == {"operation_type", "last_updated"}

\* the PRIMARY constraint of the mirrored table: none, single, composite
PkChoices == {<< >>, <<"region">>, <<"region", "id">>}

RowSpace == {<<i, r, v>> : i \in Ids, r \in Regions, v \in Vals}

VARIABLES
  src,             \* source table: set of rows
  pkCols,          \* primary-key columns of the source table (and of its copy)
  tgtExists,       \* the target table exists (DDL is durable at once)
  tgt,             \* durable rows of the target table
  tx,              \* rows as seen inside the target session's transaction
  fkChecks,        \* session variable foreign_key_checks of the target session
  srcConn,         \* "none" | "open" | "closed"
  tgtConn,         \* "none" | "open" | "closed"
  pc,              \* position of sync_data
  runs,            \* number of runs started; also the clock CURRENT_TIMESTAMP reads
  source_data,     \* dict pk_key -> row          (fetch_source_data)
  target_data,     \* dict pk_key -> business row (fetch_target_data)
  source_columns,  \* columns returned by fetch_source_data
  pk_columns,      \* pk_columns returned by fetch_source_data
  loaded,          \* line 219 has completed: both snapshots are loaded
  todoSrc,         \* keys the first loop has still to visit
  todoTgt,         \* keys the second loop has still to visit
  inserted_count,
  updated_count,
  deleted_count,
  status,          \* outcome of the current / last run: "none" | "ok" | "failed"
  issued,          \* statements issued by the run: [ins, upd, del: sets of keys]
  txLog,           \* commit / rollback calls of the run on the target connection
  preTgt,          \* durable target rows when the run started
  preExists,       \* target table existed when the run started
  srcChanged,      \* the source was changed since the last run read it
  srcChangedInRun, \* the source was changed after the current run read it
  srcDDL,          \* SHOW CREATE TABLE of the source table: sequence of clauses
  tgtDDL,          \* definition of the target table; << >> while it does not exist
  create_statement \* local of create_target_table_if_not_exists, as executed

vars == <<src, pkCols, tgtExists, tgt, tx, fkChecks, srcConn, tgtConn, pc, runs,
          source_data, target_data, source_columns, pk_columns, loaded,
          todoSrc, todoTgt, inserted_count, updated_count, deleted_count, status, issued, txLog,
          preTgt, preExists, srcChanged, srcChangedInRun,
          srcDDL, tgtDDL, create_statement>>

schemaVars == <<pkCols, srcDDL>>
dbVars    == <<tgtExists, tgtDDL, tgt, tx>>
connVars  == <<fkChecks, srcConn, tgtConn>>
fetchVars == <<source_data, target_data, source_columns, pk_columns, loaded>>
loopVars  == <<todoSrc, todoTgt>>
countVars == <<inserted_count, updated_count, deleted_count>>
histVars  == <<preTgt, preExists, srcChanged, srcChangedInRun>>

\* ---------------------------------------------------------- pure helpers
EmptyDict == << >>
NoIssued == [ins |-> {}, upd |-> {}, del |-> {}]

\* list.index(name)
ColIndex(cols, name) == CHOOSE i \in 1..Len(cols) : cols[i] = name

\* tuple(row[columns.index(pk)] for pk in pk_columns)
SourcePkValues(row, columns, pkc) ==
  [i \in 1..Len(pkc) |-> row[ColIndex(columns, pkc[i])]]

\* pk_values[0] if len(pk_values) == 1 else pk_values
PkKey(pk_values) == IF Len(pk_values) = 1 THEN pk_values[1] ELSE pk_values

\* pk_key if isinstance(pk_key, tuple) else (pk_key,)
\* (a key is a tuple exactly when it was not built from one single column)
WherePkValues(pk_key, pkc) == IF Len(pkc) = 1 THEN <<pk_key>> ELSE pk_key

\* [col for col in columns if col not in ['operation_type', 'last_updated']]
SourceColumnsOf(columns) == SelectSeq(columns, LAMBDA c : c \notin TrackingColumns)

\* value of a named column of a stored target row
TargetCol(rec, name) ==
  IF name = "operation_type" THEN rec.op
  ELSE IF name = "last_updated" THEN rec.ts
  ELSE rec.row[ColIndex(Columns, name)]

\* SELECT <source_columns + pk_columns> : one result row of the target scan
TargetSelect(rec, scols, pkc) ==
  [i \in 1..(Len(scols) + Len(pkc)) |->
     IF i <= Len(scols) THEN TargetCol(rec, scols[i])
     ELSE TargetCol(rec, pkc[i - Len(scols)])]

\* variant: reads the key from the first columns of the result row
TargetPkValuesNoOffset(row, scols, pkc) ==
  [i \in 1..Len(pkc) |-> row[i]]

\* tuple(row[len(source_columns) + i] for i in range(len(pk_columns)))
TargetPkValues(row, scols, pkc) ==
  [i \in 1..Len(pkc) |-> row[Len(scols) + i]]

\* variant: the scan has no WHERE clause
TargetScanAll(rows) == rows

\* WHERE operation_type != 'deleted'
TargetScan(rows) == {t \in rows : t.op # "deleted"}

\* the dict built by the loop of fetch_source_data
SourceSnapshot(rows, columns, pkc) ==
  LET key(r) == PkKey(SourcePkValues(r, columns, pkc))
  IN  [k \in {key(r) : r \in rows} |-> CHOOSE r \in rows : key(r) = k]

\* variant: last_updated is selected and kept in the stored tuple
TargetSnapshotWithTimestamp(rows, scols, pkc) ==
  LET key(t) == PkKey(TargetPkValues(TargetSelect(t, scols, pkc), scols, pkc))
      live == TargetScan(rows)
  IN  [k \in {key(t) : t \in live} |->
         LET t == CHOOSE q \in live : key(q) = k
         IN  Append(SubSeq(TargetSelect(t, scols, pkc), 1, Len(scols)), t.ts)]

\* the dict built by the loop of fetch_target_data
TargetSnapshot(rows, scols, pkc) ==
  LET res == {TargetSelect(t, scols, pkc) : t \in TargetScan(rows)}
      key(r) == PkKey(TargetPkValues(r, scols, pkc))
  IN  [k \in {key(r) : r \in res} |->
         SubSeq(CHOOSE r \in res : key(r) = k, 1, Len(scols))]

\* variant: rows are never found equal
RowsDifferAlways(source_row, target_row) == TRUE

\* variant: SQL comparison, in which NULL differs from NULL
RowsDifferSql(source_row, target_row) ==
  \E i \in 1..Len(source_row) :
     source_row[i] # target_row[i] \/ source_row[i] = Null

\* source_row != target_data[pk_key]  (tuple comparison; None == None)
RowsDiffer(source_row, target_row) == source_row # target_row

\* variant: every key found in the target is updated, equal or not
ClassifyNoCompare(pk_key, sdata, tdata) ==
  IF pk_key \notin DOMAIN tdata THEN "insert" ELSE "update"

\* branch taken by the first loop for one key
Classify(pk_key, sdata, tdata) ==
  IF pk_key \notin DOMAIN tdata THEN "insert"
  ELSE IF RowsDiffer(sdata[pk_key], tdata[pk_key]) THEN "update"
  ELSE "none"

\* branch taken by the second loop for one key
MarksDeleted(pk_key, sdata) == pk_key \notin DOMAIN sdata

\* WHERE `pk1` = %s AND `pk2` = %s ...
WhereMatches(rec, pkc, values) ==
  \A i \in 1..Len(pkc) : TargetCol(rec, pkc[i]) = values[i]

\* the PRIMARY KEY constraint of the target table rejects the row
DuplicateKey(rows, row) ==
  /\ pkCols # << >>
  /\ \E t \in rows :
       SourcePkValues(t.row, Columns, pkCols) = SourcePkValues(row, Columns, pkCols)

\* variant: the new row is tagged 'updated'
InsertRowAsUpdated(rows, row, now) ==
  rows \cup {[row |-> row, op |-> "updated", ts |-> now]}

\* INSERT INTO t (<columns>, operation_type) VALUES (<row>, 'inserted')
InsertRow(rows, row, now) ==
  rows \cup {[row |-> row, op |-> "inserted", ts |-> now]}

\* UPDATE t SET <columns> = <row>, operation_type = 'updated', last_updated = now WHERE pk
UpdateRow(rows, row, pkc, values, now) ==
  {IF WhereMatches(t, pkc, values)
     THEN [row |-> row, op |-> "updated", ts |-> now] ELSE t : t \in rows}

\* variant: DELETE FROM t WHERE pk
HardDeleteRow(rows, pkc, values, now) ==
  {t \in rows : ~WhereMatches(t, pkc, values)}

\* UPDATE t SET operation_type = 'deleted', last_updated = now WHERE pk
SoftDeleteRow(rows, pkc, values, now) ==
  {IF WhereMatches(t, pkc, values)
     THEN [t EXCEPT !.op = "deleted", !.ts = now] ELSE t : t \in rows}

\* A target session is the pair of the durable rows and the rows the
\* session sees.  mysql.connector connects with autocommit off (line 70), so
\* a statement changes only what the session sees.
\* variant: autocommit on, every statement is durable at once
AutocommitOn(durable, session) == session

\* cursor.execute of a row statement: durable rows after the call
Execute(durable, session) == durable

\* variant: the handler commits what the run had written
RollbackAsCommit(durable, session) == session

\* target_conn.rollback(): durable rows after the call
rollback(durable, session) == durable

\* target_conn.commit(): durable rows after the call
commit(durable, session) == session

\* variant: the connection is left as it is
SkipClose(conn) == conn

\* if conn and conn.is_connected(): conn.close()
CloseIfConnected(conn) == IF conn = "open" THEN "closed" ELSE conn

\* variant: the primary-key test is missing
HasPrimaryKeyAlways(pkc) == TRUE

\* line 151: pk_columns is not empty
HasPrimaryKey(pkc) == pkc # << >>

\* -------------------------------------------------------- source tables
UniquePk(rows, pkc) ==
  \A a, b \in rows :
     SourcePkValues(a, Columns, pkc) = SourcePkValues(b, Columns, pkc) => a = b

ValidSource(rows, pkc) ==
  /\ Cardinality(rows) <= MaxRows
  /\ pkc # << >> => UniquePk(rows, pkc)

\* ------------------------------------------- the CREATE TABLE statement
\* A statement is the sequence of its clauses.  A clause has a kind k, the
\* identifier it names, and the quote character q around its identifiers:
\* "bt" for backticks, "dq" for double quotes (sql_mode ANSI_QUOTES), "-" when
\* the clause holds no identifier.
TableName == "t"
Quotings == {"bt", "dq"}
FkCounts == {0, 1, 2}

Tok(k, name, q) == [k |-> k, name |-> name, q |-> q]

PkName(pkc) == IF Len(pkc) = 1 THEN "region" ELSE "region,id"
FkName(i) == IF i = 1 THEN "fk_a" ELSE "fk_b"

\* text of the PARTITION BY comment that follows the table options:
\*   /*!50100 PARTITION BY RANGE (id)
\*   (PARTITION p0 VALUES LESS THAN (10) ENGINE = InnoDB,
\*    PARTITION p1 VALUES LESS THAN MAXVALUE ENGINE = InnoDB) */
PartitionClauses(q) ==
  <<Tok("partition_by", "id", q), Tok(")", "", "-"), Tok("engine", "", "-"),
    Tok("partition", "p1", "-"), Tok(")", "", "-"), Tok("*/", "", "-")>>

\* line 93-94: what SHOW CREATE TABLE returns for the source table
ShowCreateTable(pkc, q, nfk, partitioned) ==
  <<Tok("create", TableName, q)>>
  \o [i \in 1..Len(Columns) |-> Tok("column", Columns[i], q)]
  \o (IF pkc = << >> THEN << >> ELSE <<Tok("primary", PkName(pkc), q)>>)
  \o [i \in 1..nfk |-> Tok("foreign", FkName(i), q)]
  \o <<Tok(")", "", "-"), Tok("engine", "", "-")>>
  \o (IF partitioned THEN PartitionClauses(q) ELSE << >>)

\* line 98: create_statement.replace('"', '`')
ReplaceQuotes(stmt) ==
  [i \in 1..Len(stmt) |-> IF stmt[i].q = "dq" THEN [stmt[i] EXCEPT !.q = "bt"]
                                              ELSE stmt[i]]

KeepCreateHeader(stmt, table_name) == stmt

\* lines 101-104: "CREATE TABLE `name`" becomes "CREATE TABLE IF NOT EXISTS `name`"
AddIfNotExists(stmt, table_name) ==
  [i \in 1..Len(stmt) |->
     IF stmt[i].k = "create" /\ stmt[i].name = table_name /\ stmt[i].q = "bt"
       THEN [stmt[i] EXCEPT !.k = "create_if_not_exists"]
       ELSE stmt[i]]

\* the text inserted by line 117
TrackingDefinitions ==
  <<Tok("column", "operation_type", "bt"), Tok("column", "last_updated", "bt")>>

\* line 109-110: where group 2 of (.*)(\s*\)\s*(ENGINE.*)?$) can start: a ")"
\* that ends the statement or is followed by ENGINE; group 1 is greedy, so
\* the match takes the last of them
ClosePositions(stmt) ==
  {i \in 1..Len(stmt) :
     /\ stmt[i].k = ")"
     /\ (i = Len(stmt) \/ stmt[i + 1].k = "engine")}

MaxOf(S) == CHOOSE x \in S : \A y \in S : y <= x

\* lines 109-117
AddTrackingColumns(stmt) ==
  IF ClosePositions(stmt) = {}
    THEN stmt
    ELSE LET p == MaxOf(ClosePositions(stmt))
         IN  SubSeq(stmt, 1, p - 1) \o TrackingDefinitions \o SubSeq(stmt, p, Len(stmt))

\* lines 93-117: the statement handed to cursor_target.execute
RewriteCreateStatement(stmt, table_name) ==
  AddTrackingColumns(AddIfNotExists(ReplaceQuotes(stmt), table_name))

\* the server parses the statement: the column list ends at the first ")",
\* and a column definition after it is a syntax error (1064)
IsValidDDL(stmt) ==
  \A i \in 1..Len(stmt) :
     stmt[i].k = "column" => \A j \in 1..(i - 1) : stmt[j].k # ")"

HasForeignKey(stmt) == \E i \in 1..Len(stmt) : stmt[i].k = "foreign"

IfNotExists(stmt) == stmt[1].k = "create_if_not_exists"

\* line 120: outcomes of cursor_target.execute(create_statement).
\* "error": the statement is refused (1064 syntax, 1050 table exists, or a
\* foreign key whose parent table the target server does not hold);
\* "noop": the table exists and IF NOT EXISTS skips the statement;
\* "created": the table is created with the statement's definition
ExecuteCreate(stmt, exists) ==
  IF ~IsValidDDL(stmt) THEN {"error"}
  ELSE IF exists THEN (IF IfNotExists(stmt) THEN {"noop"} ELSE {"error"})
  ELSE IF HasForeignKey(stmt) THEN {"created", "error"}
  ELSE {"created"}

\* ------------------------------------------------------------------ Init
\* everything but the schema of the source table
InitTables ==
  /\ src = {}
  /\ tgtExists = FALSE
  /\ tgt = {}
  /\ tx = {}
  /\ fkChecks = TRUE
  /\ srcConn = "none"
  /\ tgtConn = "none"
  /\ pc = "idle"
  /\ runs = 0
  /\ source_data = EmptyDict
  /\ target_data = EmptyDict
  /\ source_columns = << >>
  /\ pk_columns = << >>
  /\ loaded = FALSE
  /\ todoSrc = {}
  /\ todoTgt = {}
  /\ inserted_count = 0
  /\ updated_count = 0
  /\ deleted_count = 0
  /\ status = "none"
  /\ issued = NoIssued
  /\ txLog = << >>
  /\ preTgt = {}
  /\ preExists = FALSE
  /\ srcChanged = FALSE
  /\ srcChangedInRun = FALSE
  /\ tgtDDL = << >>
  /\ create_statement = << >>

Init ==
  /\ pkCols \in PkChoices
  /\ srcDDL = ShowCreateTable(pkCols, "bt", 0, FALSE)
  /\ InitTables

\* --------------------------------------------- writers of the source table
Between == pc = "idle"

SrcInsert ==
  /\ Between
  /\ \E r \in RowSpace \ src :
       /\ ValidSource(src \cup {r}, pkCols)
       /\ src' = src \cup {r}
  /\ srcChanged' = TRUE
  /\ UNCHANGED <<schemaVars, dbVars, connVars, pc, runs, fetchVars, loopVars, countVars,
                 status, issued, txLog, preTgt, preExists, srcChangedInRun, create_statement>>

SrcUpdate ==
  /\ Between
  /\ \E r \in src, n \in RowSpace \ src :
       /\ SourcePkValues(r, Columns, pkCols) = SourcePkValues(n, Columns, pkCols)
       /\ ValidSource((src \ {r}) \cup {n}, pkCols)
       /\ src' = (src \ {r}) \cup {n}
  /\ srcChanged' = TRUE
  /\ UNCHANGED <<schemaVars, dbVars, connVars, pc, runs, fetchVars, loopVars, countVars,
                 status, issued, txLog, preTgt, preExists, srcChangedInRun, create_statement>>

SrcDelete ==
  /\ Between
  /\ \E r \in src : src' = src \ {r}
  /\ srcChanged' = TRUE
  /\ UNCHANGED <<schemaVars, dbVars, connVars, pc, runs, fetchVars, loopVars, countVars,
                 status, issued, txLog, preTgt, preExists, srcChangedInRun, create_statement>>

\* ------------------------------------------------------------- sync_data
\* lines 202-208: entry of sync_data
StartRun ==
  /\ Between
  /\ runs < MaxRuns
  /\ runs' = runs + 1
  /\ pc' = "connect_source"
  /\ srcConn' = "none"
  /\ tgtConn' = "none"
  /\ source_data' = EmptyDict
  /\ target_data' = EmptyDict
  /\ source_columns' = << >>
  /\ pk_columns' = << >>
  /\ loaded' = FALSE
  /\ todoSrc' = {}
  /\ todoTgt' = {}
  /\ inserted_count' = 0
  /\ updated_count' = 0
  /\ deleted_count' = 0
  /\ status' = "none"
  /\ issued' = NoIssued
  /\ txLog' = << >>
  /\ preTgt' = tgt
  /\ preExists' = tgtExists
  /\ srcChangedInRun' = FALSE
  /\ create_statement' = << >>
  /\ UNCHANGED <<src, schemaVars, dbVars, fkChecks, srcChanged>>

\* line 211
ConnectSource ==
  /\ pc = "connect_source"
  /\ srcConn' = "open"
  /\ pc' = "connect_target"
  /\ UNCHANGED <<src, schemaVars, dbVars, fkChecks, tgtConn, runs, fetchVars, loopVars,
                 countVars, status, issued, txLog, histVars, create_statement>>

\* line 212: a new session starts with foreign_key_checks = 1 and no open transaction
ConnectTarget ==
  /\ pc = "connect_target"
  /\ tgtConn' = "open"
  /\ fkChecks' = TRUE
  /\ tx' = tgt
  /\ pc' = "bootstrap"
  /\ UNCHANGED <<src, schemaVars, tgtExists, tgtDDL, tgt, srcConn, runs, fetchVars, loopVars,
                 countVars, status, issued, txLog, histVars, create_statement>>

\* lines 85-129: CREATE TABLE IF NOT EXISTS on the target, then commit
CreateTargetTable ==
  /\ pc = "bootstrap"
  /\ IF srcConn # "open"
       THEN \* source_conn is None: line 88 raises AttributeError, outside the try
            /\ pc' = "except"
            /\ UNCHANGED <<create_statement, tgtExists, tgtDDL, tgt, txLog>>
       ELSE /\ create_statement' = RewriteCreateStatement(srcDDL, TableName)
            /\ \E outcome \in ExecuteCreate(create_statement', tgtExists) :
                 IF outcome = "error"
                   THEN \* line 120 raises; lines 124-126 re-raise
                        /\ pc' = "except"
                        /\ UNCHANGED <<tgtExists, tgtDDL, tgt, txLog>>
                   ELSE /\ tgtExists' = TRUE
                        /\ tgtDDL' = IF outcome = "created" THEN create_statement'
                                                            ELSE tgtDDL
                        /\ tgt' = commit(tgt, tx)
                        /\ txLog' = Append(txLog, "commit_ddl")
                        /\ pc' = "fetch_source"
  /\ UNCHANGED <<src, schemaVars, tx, connVars, runs, fetchVars, loopVars, countVars,
                 status, issued, histVars>>

\* lines 136-167; line 152 raises when the table has no primary key
FetchSourceData ==
  /\ pc = "fetch_source"
  /\ IF ~HasPrimaryKey(pkCols)
       THEN /\ pc' = "except"
            /\ UNCHANGED <<source_data, source_columns, pk_columns>>
       ELSE /\ source_data' = SourceSnapshot(src, Columns, pkCols)
            /\ source_columns' = Columns
            /\ pk_columns' = pkCols
            /\ pc' = "fetch_target"
  /\ UNCHANGED <<src, schemaVars, dbVars, connVars, runs, target_data, loaded, loopVars,
                 countVars, status, issued, txLog, histVars, create_statement>>

\* lines 169-200, and line 221
FetchTargetData ==
  /\ pc = "fetch_target"
  /\ target_data' = TargetSnapshot(tx, SourceColumnsOf(source_columns), pkCols)
  /\ todoSrc' = DOMAIN source_data
  /\ todoTgt' = DOMAIN target_data'
  /\ loaded' = TRUE
  /\ pc' = "apply"
  /\ UNCHANGED <<src, schemaVars, dbVars, connVars, runs, source_data, source_columns,
                 pk_columns, countVars, status, issued, txLog, histVars, create_statement>>

\* lines 229-255: one iteration of the loop over source_data
ProcessSourceRow ==
  /\ pc = "apply"
  /\ \E k \in todoSrc :
       LET row == source_data[k]
           c   == Classify(k, source_data, target_data)
       IN  /\ todoSrc' = todoSrc \ {k}
           /\ CASE c = "insert" /\ DuplicateKey(tx, row) ->
                     \* cursor.execute raises IntegrityError (1062)
                     /\ issued' = [issued EXCEPT !.ins = @ \cup {k}]
                     /\ pc' = "except"
                     /\ UNCHANGED <<tx, countVars>>
                [] c = "insert" /\ ~DuplicateKey(tx, row) ->
                     /\ tx' = InsertRow(tx, row, runs)
                     /\ issued' = [issued EXCEPT !.ins = @ \cup {k}]
                     /\ inserted_count' = inserted_count + 1
                     /\ pc' = pc
                     /\ UNCHANGED <<updated_count, deleted_count>>
                [] c = "update" ->
                     /\ tx' = UpdateRow(tx, row, pk_columns,
                                        WherePkValues(k, pk_columns), runs)
                     /\ issued' = [issued EXCEPT !.upd = @ \cup {k}]
                     /\ updated_count' = updated_count + 1
                     /\ pc' = pc
                     /\ UNCHANGED <<inserted_count, deleted_count>>
                [] c = "none" ->
                     UNCHANGED <<tx, issued, countVars, pc>>
  /\ tgt' = Execute(tgt, tx')
  /\ UNCHANGED <<src, schemaVars, tgtExists, tgtDDL, connVars, runs, fetchVars, todoTgt,
                 status, txLog, histVars, create_statement>>

\* lines 258-268: one iteration of the loop over target_data
MarkDeletedRow ==
  /\ pc = "apply"
  /\ todoSrc = {}
  /\ \E k \in todoTgt :
       /\ todoTgt' = todoTgt \ {k}
       /\ IF MarksDeleted(k, source_data)
            THEN /\ tx' = SoftDeleteRow(tx, pk_columns, WherePkValues(k, pk_columns), runs)
                 /\ issued' = [issued EXCEPT !.del = @ \cup {k}]
                 /\ deleted_count' = deleted_count + 1
            ELSE UNCHANGED <<tx, issued, deleted_count>>
  /\ tgt' = Execute(tgt, tx')
  /\ UNCHANGED <<src, schemaVars, tgtExists, tgtDDL, connVars, pc, runs, fetchVars, todoSrc,
                 inserted_count, updated_count, status, txLog, histVars, create_statement>>

\* lines 270-273
CommitRows ==
  /\ pc = "apply"
  /\ todoSrc = {}
  /\ todoTgt = {}
  /\ tgt' = commit(tgt, tx)
  /\ txLog' = Append(txLog, "commit_rows")
  /\ status' = "ok"
  /\ pc' = "finally"
  /\ UNCHANGED <<src, schemaVars, tgtExists, tgtDDL, tx, connVars, runs, fetchVars, loopVars,
                 countVars, issued, histVars, create_statement>>

\* lines 275-279
HandleException ==
  /\ pc = "except"
  /\ IF tgtConn = "open"
       THEN /\ tgt' = rollback(tgt, tx)
            /\ tx' = tgt'
            /\ txLog' = Append(txLog, "rollback")
       ELSE UNCHANGED <<tgt, tx, txLog>>
  /\ status' = "failed"
  /\ pc' = "finally"
  /\ UNCHANGED <<src, schemaVars, tgtExists, tgtDDL, connVars, runs, fetchVars, loopVars,
                 countVars, issued, histVars, create_statement>>

\* lines 281-285; closing a session discards what it had not committed
Finally ==
  /\ pc = "finally"
  /\ srcConn' = CloseIfConnected(srcConn)
  /\ tgtConn' = CloseIfConnected(tgtConn)
  /\ tx' = tgt
  /\ pc' = "done"
  /\ UNCHANGED <<src, schemaVars, tgtExists, tgtDDL, tgt, fkChecks, runs, fetchVars, loopVars,
                 countVars, status, issued, txLog, histVars, create_statement>>

\* sync_data has returned or raised: its locals are gone
Return ==
  /\ pc = "done"
  /\ pc' = "idle"
  /\ srcConn' = "none"
  /\ tgtConn' = "none"
  /\ source_data' = EmptyDict
  /\ target_data' = EmptyDict
  /\ source_columns' = << >>
  /\ pk_columns' = << >>
  /\ loaded' = FALSE
  /\ inserted_count' = 0
  /\ updated_count' = 0
  /\ deleted_count' = 0
  /\ issued' = NoIssued
  /\ txLog' = << >>
  /\ preTgt' = {}
  /\ preExists' = FALSE
  /\ todoSrc' = {}
  /\ todoTgt' = {}
  /\ srcChanged' = srcChangedInRun
  /\ srcChangedInRun' = FALSE
  /\ create_statement' = << >>
  /\ UNCHANGED <<src, schemaVars, dbVars, fkChecks, runs, status>>

Next ==
  \/ SrcInsert
  \/ SrcUpdate
  \/ SrcDelete
  \/ StartRun
  \/ ConnectSource
  \/ ConnectTarget
  \/ CreateTargetTable
  \/ FetchSourceData
  \/ FetchTargetData
  \/ ProcessSourceRow
  \/ MarkDeletedRow
  \/ CommitRows
  \/ HandleException
  \/ Finally
  \/ Return

Spec == Init /\ [][Next]_vars

\* ------------------------------------------------- failing database calls
\* A statement sent to a server can fail (mysql.connector.Error); the
\* specification FaultSpec adds these outcomes to the steps of Spec.

\* line 93 raises (SHOW CREATE TABLE on the source): create_statement is
\* never bound and nothing is sent to the target; lines 124-126 re-raise
FailShowCreate ==
  /\ pc = "bootstrap"
  /\ srcConn = "open"
  /\ pc' = "except"
  /\ UNCHANGED <<src, schemaVars, dbVars, connVars, runs, fetchVars, loopVars, countVars,
                 status, issued, txLog, histVars, create_statement>>

\* line 120 or line 121 raises; the DDL statement may already have taken effect.
\* Lines 94-117 have run: create_statement holds the rewritten statement.
FailBootstrap ==
  /\ pc = "bootstrap"
  /\ srcConn = "open"
  /\ create_statement' = RewriteCreateStatement(srcDDL, TableName)
  /\ \E created \in BOOLEAN :
       /\ tgtExists' = (tgtExists \/ created)
       /\ tgtDDL' = IF created /\ ~tgtExists
                      THEN RewriteCreateStatement(srcDDL, TableName)
                      ELSE tgtDDL
  /\ pc' = "except"
  /\ UNCHANGED <<src, schemaVars, tgt, tx, connVars, runs, fetchVars, loopVars, countVars,
                 status, issued, txLog, histVars>>

\* line 141 or line 155 (source) or line 175 or line 190 (target) raises
FailFetch ==
  /\ pc \in {"fetch_source", "fetch_target"}
  /\ pc' = "except"
  /\ UNCHANGED <<src, schemaVars, dbVars, connVars, runs, fetchVars, loopVars, countVars,
                 status, issued, txLog, histVars, create_statement>>

\* cursor.execute of line 239, 254 or 267 raises
FailWrite ==
  /\ pc = "apply"
  /\ \/ \E k \in todoSrc : Classify(k, source_data, target_data) # "none"
     \/ todoSrc = {} /\ \E k \in todoTgt : MarksDeleted(k, source_data)
  /\ pc' = "except"
  /\ UNCHANGED <<src, schemaVars, dbVars, connVars, runs, fetchVars, loopVars, countVars,
                 status, issued, txLog, histVars, create_statement>>

\* line 270 raises: nothing of the transaction became durable
FailCommit ==
  /\ pc = "apply"
  /\ todoSrc = {}
  /\ todoTgt = {}
  /\ pc' = "except"
  /\ UNCHANGED <<src, schemaVars, dbVars, connVars, runs, fetchVars, loopVars, countVars,
                 status, issued, txLog, histVars, create_statement>>

NextFault ==
  \/ Next
  \/ FailShowCreate
  \/ FailBootstrap
  \/ FailFetch
  \/ FailWrite
  \/ FailCommit

FaultSpec == Init /\ [][NextFault]_vars

\* ------------------------------------------------- failing connections
\* get_connection raises (line 75), or returns None when the new
\* connection is not connected (line 71)

\* line 211 returns None: sync_data goes on to line 212 with source_conn
\* None, and the first use of it (line 88) raises
ConnectSourceNotConnected ==
  /\ pc = "connect_source"
  /\ pc' = "connect_target"
  /\ UNCHANGED <<src, schemaVars, dbVars, connVars, runs, fetchVars, loopVars, countVars,
                 status, issued, txLog, histVars, create_statement>>

\* line 211 raises: no connection is open
FailConnectSource ==
  /\ pc = "connect_source"
  /\ pc' = "except"
  /\ UNCHANGED <<src, schemaVars, dbVars, connVars, runs, fetchVars, loopVars, countVars,
                 status, issued, txLog, histVars, create_statement>>

\* line 212 raises, or returns None and line 89 raises: the source
\* connection is open, target_conn is None
FailConnectTarget ==
  /\ pc = "connect_target"
  /\ pc' = "except"
  /\ UNCHANGED <<src, schemaVars, dbVars, connVars, runs, fetchVars, loopVars, countVars,
                 status, issued, txLog, histVars, create_statement>>

NextConn ==
  \/ NextFault
  \/ ConnectSourceNotConnected
  \/ FailConnectSource
  \/ FailConnectTarget

ConnSpec == Init /\ [][NextConn]_vars

\* ------------------------------------------------ a concurrent writer
\* sync_data reads the source once (line 218) and holds no lock on it.  A
\* write that lands before that read is a write between two runs; a write
\* that lands after it, anywhere up to the return, is unseen by the run.
\* ConcSpec adds the second kind, placed between lines 218 and 219.
MidRun == pc = "fetch_target"

\* the tables one INSERT, one DELETE or one UPDATE of a row can leave
SourceWrites(rows, pkc) ==
  {s \in {rows \cup {r} : r \in RowSpace \ rows}
          \cup {rows \ {r} : r \in rows}
          \cup UNION {{(rows \ {r}) \cup {n} :
                         n \in {x \in RowSpace \ rows :
                                  SourcePkValues(x, Columns, pkc)
                                    = SourcePkValues(r, Columns, pkc)}} : r \in rows} :
     ValidSource(s, pkc)}

SrcWriteMidRun ==
  /\ MidRun
  /\ src' \in SourceWrites(src, pkCols)
  /\ srcChangedInRun' = TRUE
  /\ UNCHANGED <<schemaVars, dbVars, connVars, pc, runs, fetchVars, loopVars, countVars,
                 status, issued, txLog, preTgt, preExists, srcChanged, create_statement>>

NextConc ==
  \/ Next
  \/ SrcWriteMidRun

ConcSpec == Init /\ [][NextConc]_vars

\* ------------------------------------------- source tables of any shape
\* DdlSpec runs sync_data on an empty source table whose definition uses
\* either quoting, holds zero to two foreign keys and may be partitioned.
DdlInit ==
  /\ pkCols \in PkChoices
  /\ \E q \in Quotings, nfk \in FkCounts, partitioned \in BOOLEAN :
       srcDDL = ShowCreateTable(pkCols, q, nfk, partitioned)
  /\ InitTables

NextDdl ==
  \/ StartRun
  \/ ConnectSource
  \/ ConnectTarget
  \/ CreateTargetTable
  \/ FetchSourceData
  \/ FetchTargetData
  \/ CommitRows
  \/ HandleException
  \/ Finally
  \/ Return

DdlSpec == DdlInit /\ [][NextDdl]_vars

\* ------------------------------------------------------ shared vocabulary
InRun == pc # "idle"
RunOk == pc = "done" /\ status = "ok"
RunFailed == pc = "done" /\ status = "failed"

\* primary-key values of a stored row, read by column name
PkOf(row) == SourcePkValues(row, Columns, pkCols)

\* key under which fetch_source_data files a row
KeyOf(row) == PkKey(PkOf(row))

VisitedSrc == DOMAIN source_data \ todoSrc
VisitedTgt == DOMAIN target_data \ todoTgt
LoopsDone == loaded /\ todoSrc = {} /\ todoTgt = {}

SameKey(a, b) == PkOf(a.row) = PkOf(b.row)
Writes == inserted_count + updated_count + deleted_count
RowCommits == Len(SelectSeq(txLog, LAMBDA e : e = "commit_rows"))
LastTx == IF txLog = << >> THEN "none" ELSE txLog[Len(txLog)]

\* ------------------------------------------------------------------- C1
\* C1: after any run, every primary key present in the source has a target
\* row with the source row's business values and operation_type 'inserted'
\* or 'updated'.
C1_Completeness ==
  (pc = "done" /\ pkCols # << >>) =>
    \A r \in src :
       \E t \in tgt : t.row = r /\ t.op \in {"inserted", "updated"}

\* ------------------------------------------------------------------- C2
\* C2: a run that follows another run with no source change in between
\* issues no INSERT, no UPDATE and no soft-delete and counts 0, 0, 0.
C2_Idempotence ==
  (pc = "done" /\ runs >= 2 /\ ~srcChanged) =>
    /\ issued = NoIssued
    /\ inserted_count = 0
    /\ updated_count = 0
    /\ deleted_count = 0

\* ------------------------------------------------------------------- C3
\* C3: for every key in the target snapshot and no longer in the source, a
\* run keeps the target row, sets its operation_type to 'deleted' and
\* leaves its business values as they were.
C3_SoftDeletePreserved ==
  (pc = "done" /\ loaded) =>
    \A p \in preTgt :
       (p.op # "deleted" /\ ~\E r \in src : PkOf(r) = PkOf(p.row)) =>
          \E t \in tgt : t.row = p.row /\ t.op = "deleted"

\* ------------------------------------------------------------------- C4
\* C4: the row writes of a run are made durable by one commit, issued after
\* the last write: before that commit the durable rows are those the run
\* started from, after it they hold every write of the run, and a run
\* commits its rows at most once.
C4_SingleTransaction ==
  InRun =>
    /\ RowCommits <= 1
    /\ RowCommits = 0 => tgt = preTgt
    /\ RowCommits = 1 =>
         /\ LoopsDone
         /\ LastTx = "commit_rows"
         /\ tgt = tx
         /\ Cardinality(tgt \ preTgt) = Writes
    /\ RunOk => RowCommits = 1

C4_Witness ==
  /\ RunOk
  /\ RowCommits = 1
  /\ Writes >= 2
  /\ preTgt # {}

\* ------------------------------------------------------------------- C5
\* C5 as stated: a failed run rolls back and leaves the target as it was,
\* the existence of the target table included.
C5_FailedRunRestoresTarget ==
  RunFailed =>
    /\ LastTx = "rollback"
    /\ tgt = preTgt
    /\ tgtExists = preExists

\* C5, amended: a failed run rolls back and propagates the error; the
\* durable rows of the target are those the run started from, a table that
\* existed still exists, and a table created by the run's own DDL stays
\* behind, empty.
C5_FailedRunKeepsRows ==
  RunFailed =>
    /\ LastTx = "rollback"
    /\ tgt = preTgt
    /\ tx = tgt
    /\ preExists => tgtExists
    /\ (tgtExists /\ ~preExists) => tgt = {}

C5_Witness ==
  /\ RunFailed
  /\ Writes >= 1
  /\ preTgt # {}
  /\ LastTx = "rollback"

\* ------------------------------------------------------------------- C9
Created == {t \in tgt : ~\E p \in preTgt : SameKey(p, t)}
TurnedUpdated ==
  {t \in tgt : t.op = "updated" /\ \E p \in preTgt : SameKey(p, t) /\ p # t}
TurnedDeleted ==
  {t \in tgt : t.op = "deleted" /\ \E p \in preTgt : SameKey(p, t) /\ p.op # "deleted"}

\* C9: the counts of a successful run are the numbers of target rows the
\* run created, turned 'updated' and turned 'deleted'; against an empty
\* target the run counts one insert per source row, no update and no
\* delete, and the target then holds exactly the source rows, all 'inserted'.
C9_ReportedCounts ==
  RunOk =>
    /\ inserted_count = Cardinality(Created)
    /\ updated_count = Cardinality(TurnedUpdated)
    /\ deleted_count = Cardinality(TurnedDeleted)
    /\ preTgt = {} =>
         /\ inserted_count = Cardinality(src)
         /\ updated_count = 0
         /\ deleted_count = 0
         /\ Cardinality(tgt) = Cardinality(src)
         /\ \A t \in tgt : t.row \in src /\ t.op = "inserted"

C9_Witness ==
  /\ RunOk
  /\ ~preExists
  /\ Cardinality(src) = 2
  /\ inserted_count = 2

\* ------------------------------------------------------------------ C10
\* C10: foreign-key enforcement of the target session is off while the
\* bootstrap DDL executes and from the first row write until the commit,
\* and on again after the commit.
C10_ForeignKeyChecksOff ==
  /\ pc = "bootstrap" => ~fkChecks
  /\ (pc = "apply" /\ issued # NoIssued) => ~fkChecks
  /\ (pc = "finally" /\ status = "ok") => fkChecks

\* ------------------------------------------------------------------- C6
ToInsert == {k \in DOMAIN source_data : k \notin DOMAIN target_data}
ToUpdate == {k \in DOMAIN source_data \cap DOMAIN target_data :
               source_data[k] # target_data[k]}
ToDelete == {k \in DOMAIN target_data : k \notin DOMAIN source_data}
NoAction == {k \in DOMAIN source_data \cap DOMAIN target_data :
               source_data[k] = target_data[k]}

\* C6: the statements a run issues follow the diff of the two snapshots:
\* INSERT for the keys of the source snapshot missing from the target
\* snapshot, UPDATE for the keys in both whose tuples differ, soft-delete
\* for the keys of the target snapshot missing from the source snapshot,
\* nothing for keys in both with equal tuples; the three sets are pairwise
\* disjoint and, once both loops are over, every key of either snapshot is
\* in exactly one of the four classes.
C6_DiffClassification ==
  loaded =>
    /\ issued.ins = ToInsert \cap VisitedSrc
    /\ issued.upd = ToUpdate \cap VisitedSrc
    /\ issued.del = ToDelete \cap VisitedTgt
    /\ issued.ins \cap issued.upd = {}
    /\ issued.ins \cap issued.del = {}
    /\ issued.upd \cap issued.del = {}
    /\ LoopsDone =>
         \A k \in DOMAIN source_data \cup DOMAIN target_data :
            Cardinality({c \in {"ins", "upd", "del", "none"} :
               k \in (IF c = "none" THEN NoAction ELSE issued[c])}) = 1

C6_Witness ==
  /\ RunOk
  /\ issued.upd # {}
  /\ issued.del # {}
  /\ inserted_count = 0

\* ------------------------------------------------------------------- C7
\* key k is in both snapshots, a column is NULL on both sides and all columns agree
NullOnBothSides(k) ==
  /\ k \in DOMAIN source_data \cap DOMAIN target_data
  /\ \E i \in 1..Len(source_data[k]) :
       source_data[k][i] = Null /\ target_data[k][i] = Null
  /\ \A i \in 1..Len(source_data[k]) : source_data[k][i] = target_data[k][i]

\* C7: a key in both snapshots whose rows agree in every column, one of
\* them NULL on both sides, is never classified toUpdate: no UPDATE is
\* issued for it and its stored row stays as it was before the run.
C7_NullEquality ==
  loaded =>
    \A k \in DOMAIN source_data \cap DOMAIN target_data :
       NullOnBothSides(k) =>
         /\ k \notin issued.upd
         /\ \A t \in tx : KeyOf(t.row) = k => t \in preTgt

C7_Witness ==
  /\ RunOk
  /\ \E k \in VisitedSrc : NullOnBothSides(k)

\* ------------------------------------------------------------------- C8
\* C8: no two rows read from a table are merged into one snapshot entry
\* (rows with different primary-key values get different keys), and the
\* key fetch_target_data builds for a target row is the key
\* fetch_source_data builds for a row with the same primary-key values,
\* for a single-column and for a composite primary key.
C8_SnapshotKeys ==
  loaded =>
    /\ \A r \in src : \E k \in DOMAIN source_data : source_data[k] = r
    /\ Cardinality(DOMAIN source_data) = Cardinality(src)
    /\ \A t \in TargetScan(preTgt) :
          \E k \in DOMAIN target_data : target_data[k] = t.row
    /\ Cardinality(DOMAIN target_data) = Cardinality(TargetScan(preTgt))
    /\ \A k \in DOMAIN target_data : KeyOf(target_data[k]) = k
    /\ \A r \in src, t \in TargetScan(preTgt) :
          PkOf(r) = PkOf(t.row) =>
            \E k \in DOMAIN source_data \cap DOMAIN target_data :
               source_data[k] = r /\ target_data[k] = t.row

\* composite key: two rows that differ only in region, on both sides
C8_Witness ==
  /\ loaded
  /\ Len(pk_columns) = 2
  /\ Cardinality(DOMAIN source_data) = 2
  /\ DOMAIN target_data = DOMAIN source_data

\* ------------------------------------------------------------------ C11
IsTracking(tok) == tok.k = "column" /\ tok.name \in TrackingColumns

\* a clause up to the quote character and the IF NOT EXISTS of the header
ClauseOf(tok) ==
  <<IF tok.k = "create_if_not_exists" THEN "create" ELSE tok.k, tok.name>>

ClausesOf(stmt) == [i \in 1..Len(stmt) |-> ClauseOf(stmt[i])]

\* the first ")" of a statement closes the column list of the table
TableClose(stmt) ==
  CHOOSE i \in 1..Len(stmt) : stmt[i].k = ")" /\ \A j \in 1..(i - 1) : stmt[j].k # ")"

\* C11: the statement executed on the target holds every clause of the
\* source DDL except the foreign-key clauses, holds no foreign-key clause,
\* and holds the two tracking columns after the source's definitions, at
\* the end of the column list.
C11_CreateStatement ==
  create_statement # << >> =>
    /\ ~HasForeignKey(create_statement)
    /\ ClausesOf(SelectSeq(create_statement, LAMBDA t : ~IsTracking(t)))
         = ClausesOf(SelectSeq(srcDDL, LAMBDA t : t.k # "foreign"))
    /\ LET c == TableClose(create_statement)
       IN  /\ c > Len(TrackingDefinitions)
           /\ SubSeq(create_statement, c - Len(TrackingDefinitions), c - 1)
                = TrackingDefinitions

\* ------------------------------------------------------------------ C12
\* C12: when sync_data has returned or raised, whatever the step that
\* failed, no connection opened by the run is still open.
C12_ConnectionsClosed ==
  pc = "done" =>
    /\ srcConn \in {"none", "closed"}
    /\ tgtConn \in {"none", "closed"}
    /\ status = "ok" => (srcConn = "closed" /\ tgtConn = "closed")

\* the target connection could not be opened; the source connection was
C12_Witness ==
  /\ RunFailed
  /\ srcConn = "closed"
  /\ tgtConn = "none"

\* ------------------------------------------------------------------ C13
\* C13: a source table without primary key ends the run with an error:
\* no source row is loaded into a snapshot and no INSERT, UPDATE or
\* soft-delete is issued.
C13_NoPrimaryKeyRefused ==
  (pkCols = << >> /\ InRun) =>
    /\ source_data = EmptyDict
    /\ ~loaded
    /\ issued = NoIssued
    /\ Writes = 0
    /\ tx = preTgt
    /\ tgt = preTgt
    /\ pc = "done" => status = "failed"

C13_Witness ==
  /\ RunFailed
  /\ pkCols = << >>
  /\ src # {}

\* ------------------------------------------------------------------ C14
\* C14: over one run, a target row is created 'inserted'; a live row
\* becomes 'updated' exactly when the run found a business difference for
\* its key, and 'deleted' exactly when the run found its key absent from
\* the source; operation_type changes in no other way.
C14_OperationTypeLifecycle ==
  (pc = "done" /\ loaded) =>
    /\ \A p \in preTgt :
         \E t \in tgt :
            /\ SameKey(p, t)
            /\ (t.op = "updated" /\ t # p) <=>
                 (p.op # "deleted" /\ KeyOf(p.row) \in ToUpdate)
            /\ (t.op = "deleted" /\ p.op # "deleted") <=>
                 (p.op # "deleted" /\ KeyOf(p.row) \in ToDelete)
            /\ t.op # p.op =>
                 (p.op \in {"inserted", "updated"} /\ t.op \in {"updated", "deleted"})
    /\ \A t \in tgt :
         (~\E p \in preTgt : SameKey(p, t)) => t.op = "inserted"

\* ------------------------------------------------------------------ C15
\* C15: the target snapshot holds exactly the target rows that are not
\* 'deleted', and no step changes or removes a row that is 'deleted':
\* its business columns, operation_type and last_updated stay, whether
\* its key is absent from the source or present again.
C15_DeletedRowsFrozen ==
  [][/\ loaded' =>
          {target_data'[k] : k \in DOMAIN target_data'} =
             {t.row : t \in {q \in preTgt' : q.op # "deleted"}}
     /\ \A t \in tgt : t.op = "deleted" => (t \in tgt' /\ t \in tx')]_vars

\* a soft-deleted row whose key is in the source again, after a later run
C15_Witness ==
  /\ pc = "done"
  /\ loaded
  /\ \E t \in tgt :
       /\ t.op = "deleted"
       /\ t.ts < runs
       /\ \E r \in src : PkOf(r) = PkOf(t.row)

\* ------------------------------------------------------------------ C16
\* rows of a table that are not marked deleted
LiveRows(table) == {t.row : t \in {q \in table : q.op # "deleted"}}

\* C16: a run during which the source does not change, whatever a writer
\* did before it and during earlier runs, completes successfully and leaves
\* the non-deleted target rows equal to the source rows; a run that follows
\* with the source still unchanged counts 0, 0, 0.
C16_EventualConvergence ==
  (pc = "done" /\ ~srcChangedInRun /\ HasPrimaryKey(pkCols)) =>
    /\ status = "ok"
    /\ LiveRows(tgt) = src
    /\ (runs >= 2 /\ ~srcChanged) =>
          (inserted_count = 0 /\ updated_count = 0 /\ deleted_count = 0)

\* ------------------------------------------------------------------ C17
\* C17: a run issues no statement for a key that is in both snapshots with
\* equal tuples, and the stored row of that key (business columns,
\* operation_type, last_updated) is the same during and after the run.
C17_UnchangedRowUntouched ==
  loaded =>
    \A k \in NoAction :
       /\ k \notin (issued.ins \cup issued.upd \cup issued.del)
       /\ \A p \in preTgt :
            (p.op # "deleted" /\ KeyOf(p.row) = k) => (p \in tx /\ p \in tgt)

\* one key is left alone while another one is written
C17_Witness ==
  /\ RunOk
  /\ NoAction # {}
  /\ Writes >= 1

\* ------------------------------------------------------------------ C19
\* C19: no step removes a row from the target table: the set of primary
\* keys stored in the target never loses a key.
C19_NoPhysicalDelete ==
  [][{PkOf(t.row) : t \in tgt} \subseteq {PkOf(t.row) : t \in tgt'}]_vars

C19_Witness ==
  /\ RunOk
  /\ deleted_count >= 1
  /\ \E t \in tgt : t.op = "deleted" /\ t.ts = runs
  /\ Cardinality(tgt) = 2

\* ------------------------------------------------------------------ C18
\* the three sets the loops derive from a pair of snapshots
DiffOf(sdata, tdata) ==
  [ins |-> {k \in DOMAIN sdata : k \notin DOMAIN tdata},
   upd |-> {k \in DOMAIN sdata \cap DOMAIN tdata : sdata[k] # tdata[k]},
   del |-> {k \in DOMAIN tdata : k \notin DOMAIN sdata}]

\* the stored rows that agree with t on business columns and on being
\* 'deleted' or not
RowVariants(t) ==
  {[row |-> t.row, op |-> o, ts |-> n] :
     o \in (IF t.op = "deleted" THEN {"deleted"} ELSE {"inserted", "updated"}),
     n \in {0, t.ts, MaxRuns}}

\* the target tables that differ from rows in tracking columns only
RECURSIVE TrackingVariants(_)
TrackingVariants(rows) ==
  IF rows = {}
    THEN {{}}
    ELSE LET t == CHOOSE x \in rows : TRUE
         IN  {V \cup {v} : V \in TrackingVariants(rows \ {t}), v \in RowVariants(t)}

\* both snapshots are loaded and no statement has been issued yet
JustLoaded ==
  /\ loaded
  /\ pc = "apply"
  /\ todoSrc = DOMAIN source_data
  /\ todoTgt = DOMAIN target_data

\* C18: the tracking columns take no part in the comparison: every target
\* table that differs from the one read only in last_updated values or in
\* 'inserted' versus 'updated' yields the same target snapshot and the same
\* toInsert, toUpdate and toDelete sets for the source snapshot at hand,
\* and the tuples compared are rows of business columns only.
C18_TrackingColumnsIgnored ==
  JustLoaded =>
    /\ \A V \in TrackingVariants(preTgt) :
         LET tdata == TargetSnapshot(V, SourceColumnsOf(source_columns), pkCols)
         IN  /\ tdata = target_data
             /\ DiffOf(source_data, tdata) = DiffOf(source_data, target_data)
    /\ \A i \in 1..Len(source_columns) : source_columns[i] \notin TrackingColumns
    /\ \A k \in DOMAIN source_data :
         source_data[k] \in src /\ Len(source_data[k]) = Len(source_columns)
    /\ \A k \in DOMAIN target_data :
         /\ Len(target_data[k]) = Len(source_columns)
         /\ \E t \in preTgt : t.row = target_data[k]

\* two live target rows with different tracking values are compared
C18_Witness ==
  /\ JustLoaded
  /\ Cardinality(DOMAIN target_data) = 2
  /\ \E a, b \in preTgt : a.op = "inserted" /\ b.op = "updated" /\ a.ts # b.ts
  /\ DOMAIN source_data \cap DOMAIN target_data # {}

\* ------------------------------------------------------------------ C20
\* C20: when the target table exists, the bootstrap step does not fail and
\* leaves the definition of the target table and all of its rows, durable
\* and as seen by the session, as they were.
C20_BootstrapIdempotent ==
  [][(pc = "bootstrap" /\ tgtExists) =>
        /\ pc' = "fetch_source"
        /\ tgtExists'
        /\ tgtDDL' = tgtDDL
        /\ tgt' = tgt
        /\ tx' = tx]_vars

\* a later run has executed its CREATE statement on a table that holds rows
C20_Witness ==
  /\ pc = "fetch_source"
  /\ runs >= 2
  /\ preExists
  /\ preTgt # {}
  /\ create_statement # << >>
  /\ IfNotExists(create_statement)
  /\ txLog = <<"commit_ddl">>
  /\ tgt = preTgt

TypeOK ==
  /\ srcChangedInRun \in BOOLEAN
  /\ tgtExists = (tgtDDL # << >>)
  /\ pc \in {"idle", "done", "connect_source", "connect_target", "bootstrap",
                  "fetch_source", "fetch_target", "apply", "except", "finally"}
====
